---- MODULE Spec2Model ----
(***************************************************************************)
(* A model of decode.py: the command-line driver that decodes PDF417       *)
(* barcodes from a PDF or from a list of images, assembles the records,    *)
(* optionally zlib-decompresses the payload and writes it to a file.       *)
(*                                                                         *)
(* The external collaborators (PyMuPDF, PIL, pdf417decoder, zlib, the file *)
(* system) are the environment: each call returns or raises, chosen        *)
(* nondeterministically.  The control flow, the exception handlers and the *)
(* data handed from one stage to the next are those of decode.py.          *)
(***************************************************************************)
EXTENDS Integers, Sequences, FiniteSets, TLC

\* ------------------------------------------------------------------ bounds
MaxFiles == 2       \* at most this many paths on the command line
MaxPages == 2       \* at most this many pages in the PDF
MaxBarcodes == 2    \* the decoder finds at most this many barcodes per image
MaxChannels == 5    \* pix.colorspace.n ranges over 0..MaxChannels
MaxLen == 3         \* assembled payloads have at most this many bytes
MaxByte == 1        \* bytes range over 0..MaxByte

VARIABLES
    files,          \* args.files: the extension kind of each path
    verbose,        \* args.verbose
    decode_zlib,    \* args.zlib
    pc,             \* position of the single thread of control
    mode,           \* the branch main took: "none", "pdf" or "images"
    pdf_document,   \* the fitz document handle: "none", "open" or "closed"
    page_count,     \* pdf_document.page_count
    page_number,    \* loop index of process_pdf (0-based) / of process_images
    pix_n,          \* pix.colorspace.n of the page being converted
    info_list,      \* the record list being collected
    returned,       \* history: what decode_barcode returned (or raised) per input
    handed,         \* history: the argument of assemble_data, <<>> if not called
    assembled_data, \* <<the assembled bytes>>, <<>> before assembly
    wf_data,        \* <<the argument of write_file>>, <<>> if not called
    out_opens,      \* how many times the output file was opened for writing
    out_file,       \* <<"old">> untouched, <<"new", contents>> or <<"partial">>
    exit_status,    \* the status the process ends with
    log,            \* the lines printed, as <<tag, input index>>
    trace,          \* "none", "print_exc" (verbose trace) or "interpreter"
    reason          \* history: why the run turned fatal, "none" otherwise

vars == <<files, verbose, decode_zlib, pc, mode, pdf_document, page_count,
          page_number, pix_n, info_list, returned, handed, assembled_data,
          wf_data, out_opens, out_file, exit_status, log, trace, reason>>

\* --------------------------------------------------------------- data
Byte == 0..MaxByte

RECURSIVE SeqsUpTo(_, _)
SeqsUpTo(S, n) ==
    IF n = 0 THEN {<<>>}
    ELSE LET shorter == SeqsUpTo(S, n - 1)
         IN  shorter \cup {Append(s, b) : s \in {t \in shorter : Len(t) = n - 1}, b \in S}

Payloads == SeqsUpTo(Byte, MaxLen)

FileKinds == {"pdf", "img"}

RECURSIVE Sum(_)
Sum(s) == IF s = <<>> THEN 0 ELSE Head(s) + Sum(Tail(s))

\* zlib framing, reduced to what decides validity: a header byte, the stored
\* payload and a trailing checksum of the payload.
Magic == MaxByte
Checksum(p) == Sum(p) % (MaxByte + 1)
Compress(p) == <<Magic>> \o p \o <<Checksum(p)>>
Body(s) == SubSeq(s, 2, Len(s) - 1)
ValidStream(s) ==
    /\ Len(s) >= 2
    /\ s[1] = Magic
    /\ s[Len(s)] = Checksum(Body(s))
\* Mutant: the stream is handed on as it is.
DecompressIdentity(s) == s
Decompress(s) == Body(s)

\* The records decoder.barcodes_info holds after decode() found n barcodes
\* on input i.
Barcodes(i, n) == [k \in 1..n |-> [src |-> i, k |-> k]]

\* decode_barcode: the returned list and the status line it prints.
DecodeBarcode(i, n) == IF n > 0 THEN Barcodes(i, n) ELSE <<>>
DecodeLine(i, n) == IF n > 0 THEN <<"Decoded", i>> ELSE <<"No barcodes found in", i>>

\* Mutant: the new records are put in front of the list.
ExtendPrepend(list, decoded_info) ==
    IF decoded_info # <<>> THEN decoded_info \o list ELSE list

\* if decoded_info: info_list.extend(decoded_info)
Extend(list, decoded_info) ==
    IF decoded_info # <<>> THEN list \o decoded_info ELSE list

\* --------------------------------------------------------------- Init
\* The state when main starts: argparse has accepted one or more paths
\* (nargs='+') and the two flags.  main reads the extension of files[0]
\* only, so the first path alone ranges over both kinds.
Init ==
    /\ files \in {<<first>> \o [i \in 1..rest |-> "img"] :
                      first \in FileKinds, rest \in 0..(MaxFiles - 1)}
    /\ verbose \in BOOLEAN
    /\ decode_zlib \in BOOLEAN
    /\ pc = "main"
    /\ mode = "none"
    /\ pdf_document = "none"
    /\ page_count = 0
    /\ page_number = 0
    /\ pix_n = 0
    /\ info_list = <<>>
    /\ returned = <<>>
    /\ handed = <<>>
    /\ assembled_data = <<>>
    /\ wf_data = <<>>
    /\ out_opens = 0
    /\ out_file = <<"old">>
    /\ exit_status = 0
    /\ log = <<>>
    /\ trace = "none"
    /\ reason = "none"

\* ------------------------------------------------------- ways to terminate
\* The process ends with status 1 after printing msg.  SystemExit is not an
\* Exception: no `except Exception` handler on the way up catches it.
Fatal(msg, why, tr) ==
    /\ pc' = "exit"
    /\ exit_status' = 1
    /\ log' = Append(log, <<msg, 0>>)
    /\ reason' = why
    /\ trace' = tr

\* Mutant: sys.exit() without a status.
SysExitStatus0(msg, why) ==
    /\ pc' = "exit"
    /\ exit_status' = 0
    /\ log' = Append(log, <<msg, 0>>)
    /\ reason' = why
    /\ trace' = trace

\* Mutant: process_output raises instead of exiting, so that in PDF mode
\* the handler of process_pdf prints the verbose trace.
SysExitTraced(msg, why) ==
    Fatal(msg, why, IF verbose /\ mode = "pdf" THEN "print_exc" ELSE trace)

\* sys.exit(1) after a plain print (process_output).
SysExit(msg, why) == Fatal(msg, why, trace)

\* The handler of process_pdf's outer try.
PdfExcept(why) ==
    Fatal("Error processing PDF", why, IF verbose THEN "print_exc" ELSE trace)

\* The handler of the per-page conversion try.
ConvertExcept(why) ==
    Fatal("Error during image processing", why, IF verbose THEN "print_exc" ELSE trace)

\* An exception no handler catches: the interpreter prints its traceback
\* and the process ends with status 1.
Uncaught(why) == Fatal("Traceback", why, "interpreter")

\* An exception raised inside process_output that process_output does not
\* catch: in PDF mode the call sits inside process_pdf's try, in image-list
\* mode nothing encloses it.
Escapes(why) == IF mode = "pdf" THEN PdfExcept(why) ELSE Uncaught(why)

\* ------------------------------------------------------------------ main
Main ==
    /\ pc = "main"
    /\ IF Len(files) = 1 /\ files[1] = "pdf"
       THEN /\ mode' = "pdf"
            /\ pc' = "pdf_open"
       ELSE /\ mode' = "images"
            /\ pc' = "img_loop"
    /\ UNCHANGED <<files, verbose, decode_zlib, pdf_document, page_count,
                   page_number, pix_n, info_list, returned, handed,
                   assembled_data, wf_data, out_opens, out_file, exit_status,
                   log, trace, reason>>

\* ----------------------------------------------------------- process_pdf
OpenPdf ==
    /\ pc = "pdf_open"
    /\ \/ \E n \in 0..MaxPages :
            /\ pdf_document' = "open"
            /\ page_count' = n
            /\ pc' = "pdf_loop"
            /\ UNCHANGED <<exit_status, log, trace, reason>>
       \/ /\ PdfExcept("open")
          /\ UNCHANGED <<pdf_document, page_count>>
    /\ UNCHANGED <<files, verbose, decode_zlib, mode, page_number, pix_n,
                   info_list, returned, handed, assembled_data, wf_data,
                   out_opens, out_file>>

\* load_page and get_pixmap of the next page.
LoadPage ==
    /\ pc = "pdf_loop"
    /\ page_number < page_count
    /\ \/ \E n \in 0..MaxChannels :
            /\ pix_n' = n
            /\ pc' = "pdf_convert"
            /\ UNCHANGED <<exit_status, log, trace, reason>>
       \/ /\ PdfExcept("render")
          /\ UNCHANGED pix_n
    /\ UNCHANGED <<files, verbose, decode_zlib, mode, pdf_document, page_count,
                   page_number, info_list, returned, handed, assembled_data,
                   wf_data, out_opens, out_file>>

SupportedChannels == {1, 3, 4}

\* Mutant: a page that cannot be converted is reported and skipped.
ConvertPageSkip ==
    /\ pc = "pdf_convert"
    /\ \/ /\ pix_n \in SupportedChannels
          /\ pc' = "pdf_decode"
          /\ log' = Append(log, <<"Image format", page_number + 1>>)
          /\ UNCHANGED page_number
       \/ /\ pc' = "pdf_loop"
          /\ log' = Append(log, <<"Error during image processing", page_number + 1>>)
          /\ page_number' = page_number + 1
    /\ UNCHANGED <<files, verbose, decode_zlib, mode, pdf_document, page_count,
                   pix_n, info_list, returned, handed, assembled_data, wf_data,
                   out_opens, out_file, exit_status, trace, reason>>

\* The inner try: choose the image mode from the channel count and build the
\* PIL image.  pix_n = 0 stands for a pixmap without a colorspace.
ConvertPage ==
    /\ pc = "pdf_convert"
    /\ IF pix_n \in SupportedChannels
       THEN \/ /\ pc' = "pdf_decode"
               /\ log' = Append(log, <<"Image format", page_number + 1>>)
               /\ UNCHANGED <<exit_status, trace, reason>>
            \/ ConvertExcept("convert")
       ELSE ConvertExcept("colorspace")
    /\ UNCHANGED <<files, verbose, decode_zlib, mode, pdf_document, page_count,
                   page_number, pix_n, info_list, returned, handed,
                   assembled_data, wf_data, out_opens, out_file>>

\* Mutant: a page without barcodes ends the run.
DecodePageEmptyFatal ==
    /\ pc = "pdf_decode"
    /\ \/ \E n \in 1..MaxBarcodes :
            LET decoded_info == DecodeBarcode(page_number + 1, n)
            IN  /\ info_list' = Extend(info_list, decoded_info)
                /\ returned' = Append(returned, [kind |-> "ok", recs |-> decoded_info])
                /\ log' = Append(log, DecodeLine(page_number + 1, n))
                /\ page_number' = page_number + 1
                /\ pc' = "pdf_loop"
                /\ UNCHANGED <<exit_status, trace, reason>>
       \/ /\ SysExit("No barcodes found in any of the input images.", "empty")
          /\ returned' = Append(returned, [kind |-> "ok", recs |-> <<>>])
          /\ UNCHANGED <<info_list, page_number>>
       \/ /\ PdfExcept("decode")
          /\ returned' = Append(returned, [kind |-> "raised", recs |-> <<>>])
          /\ UNCHANGED <<info_list, page_number>>
    /\ UNCHANGED <<files, verbose, decode_zlib, mode, pdf_document, page_count,
                   pix_n, handed, assembled_data, wf_data, out_opens, out_file>>

DecodePage ==
    /\ pc = "pdf_decode"
    /\ \/ \E n \in 0..MaxBarcodes :
            LET decoded_info == DecodeBarcode(page_number + 1, n)
            IN  /\ info_list' = Extend(info_list, decoded_info)
                /\ returned' = Append(returned, [kind |-> "ok", recs |-> decoded_info])
                /\ log' = Append(log, DecodeLine(page_number + 1, n))
                /\ page_number' = page_number + 1
                /\ pc' = "pdf_loop"
                /\ UNCHANGED <<exit_status, trace, reason>>
       \/ /\ PdfExcept("decode")
          /\ returned' = Append(returned, [kind |-> "raised", recs |-> <<>>])
          /\ UNCHANGED <<info_list, page_number>>
    /\ UNCHANGED <<files, verbose, decode_zlib, mode, pdf_document, page_count,
                   pix_n, handed, assembled_data, wf_data, out_opens, out_file>>

\* The loop is over: close the document and call process_output.
ClosePdf ==
    /\ pc = "pdf_loop"
    /\ page_number = page_count
    /\ pdf_document' = "closed"
    /\ pc' = "process_output"
    /\ UNCHANGED <<files, verbose, decode_zlib, mode, page_count, page_number,
                   pix_n, info_list, returned, handed, assembled_data, wf_data,
                   out_opens, out_file, exit_status, log, trace, reason>>

\* -------------------------------------------------------- process_images
\* Mutant: the loop body without its try: an image that raises ends the run.
ProcessImageNoTry ==
    /\ pc = "img_loop"
    /\ page_number < Len(files)
    /\ \/ \E n \in 0..MaxBarcodes :
            LET decoded_info == DecodeBarcode(page_number + 1, n)
            IN  /\ info_list' = Extend(info_list, decoded_info)
                /\ returned' = Append(returned, [kind |-> "ok", recs |-> decoded_info])
                /\ log' = Append(log, DecodeLine(page_number + 1, n))
                /\ page_number' = page_number + 1
                /\ UNCHANGED <<pc, exit_status, trace, reason>>
       \/ /\ returned' = Append(returned, [kind |-> "raised", recs |-> <<>>])
          /\ Uncaught("image")
          /\ UNCHANGED <<info_list, page_number>>
    /\ UNCHANGED <<files, verbose, decode_zlib, mode, pdf_document,
                   page_count, pix_n, handed, assembled_data, wf_data,
                   out_opens, out_file>>

\* One iteration: open the image and decode it; any Exception is printed
\* and the loop goes on.
ProcessImage ==
    /\ pc = "img_loop"
    /\ page_number < Len(files)
    /\ \/ \E n \in 0..MaxBarcodes :
            LET decoded_info == DecodeBarcode(page_number + 1, n)
            IN  /\ info_list' = Extend(info_list, decoded_info)
                /\ returned' = Append(returned, [kind |-> "ok", recs |-> decoded_info])
                /\ log' = Append(log, DecodeLine(page_number + 1, n))
       \/ /\ returned' = Append(returned, [kind |-> "raised", recs |-> <<>>])
          /\ log' = Append(log, <<"Error processing image", page_number + 1>>)
          /\ UNCHANGED info_list
    /\ page_number' = page_number + 1
    /\ UNCHANGED <<files, verbose, decode_zlib, pc, mode, pdf_document,
                   page_count, pix_n, handed, assembled_data, wf_data,
                   out_opens, out_file, exit_status, trace, reason>>

\* return info_list, and main calls process_output.
ImagesDone ==
    /\ pc = "img_loop"
    /\ page_number = Len(files)
    /\ pc' = "process_output"
    /\ UNCHANGED <<files, verbose, decode_zlib, mode, pdf_document, page_count,
                   page_number, pix_n, info_list, returned, handed,
                   assembled_data, wf_data, out_opens, out_file, exit_status,
                   log, trace, reason>>

\* -------------------------------------------------------- process_output
CheckEmpty ==
    /\ pc = "process_output"
    /\ IF info_list = <<>>
       THEN SysExit("No barcodes found in any of the input images.", "empty")
       ELSE /\ pc' = "assemble"
            /\ UNCHANGED <<exit_status, log, trace, reason>>
    /\ UNCHANGED <<files, verbose, decode_zlib, mode, pdf_document, page_count,
                   page_number, pix_n, info_list, returned, handed,
                   assembled_data, wf_data, out_opens, out_file>>

\* PDF417Decoder.assemble_data(info_list): bytes, a ValueError, or another
\* exception.  With the flag unset the bytes go to write_file as they are.
Assemble ==
    /\ pc = "assemble"
    /\ handed' = info_list
    /\ \/ \E bytes \in Payloads :
            /\ assembled_data' = <<bytes>>
            /\ log' = Append(log, <<"Decompressing", 0>>)
            /\ IF decode_zlib
               THEN /\ pc' = "decompress"
                    /\ UNCHANGED wf_data
               ELSE /\ pc' = "write_file"
                    /\ wf_data' = <<bytes>>
            /\ UNCHANGED <<exit_status, trace, reason>>
       \/ /\ SysExit("Error", "assemble_value")
          /\ UNCHANGED <<assembled_data, wf_data>>
       \/ /\ Escapes("assemble_other")
          /\ UNCHANGED <<assembled_data, wf_data>>
    /\ UNCHANGED <<files, verbose, decode_zlib, mode, pdf_document, page_count,
                   page_number, pix_n, info_list, returned, out_opens, out_file>>

\* zlib.decompress(assembled_data), and the zlib.error handler.
DecompressStep ==
    /\ pc = "decompress"
    /\ IF ValidStream(assembled_data[1])
       THEN /\ wf_data' = <<Decompress(assembled_data[1])>>
            /\ pc' = "write_file"
            /\ UNCHANGED <<exit_status, log, trace, reason>>
       ELSE /\ SysExit("Error: Decompression error", "zlib")
            /\ UNCHANGED wf_data
    /\ UNCHANGED <<files, verbose, decode_zlib, mode, pdf_document, page_count,
                   page_number, pix_n, info_list, returned, handed,
                   assembled_data, out_opens, out_file>>

\* Mutant: write_file without its try: an I/O error propagates.
WriteFileNoTry ==
    /\ pc = "write_file"
    /\ \/ /\ out_opens' = out_opens + 1
          /\ out_file' = <<"new", wf_data[1]>>
          /\ log' = Append(log, <<"Successfully wrote data", 0>>)
          /\ pc' = "exit"
          /\ exit_status' = 0
          /\ UNCHANGED <<trace, reason>>
       \/ /\ UNCHANGED <<out_opens, out_file>>
          /\ Escapes("write")
       \/ /\ out_opens' = out_opens + 1
          /\ out_file' = <<"partial">>
          /\ Escapes("write")
    /\ UNCHANGED <<files, verbose, decode_zlib, mode, pdf_document, page_count,
                   page_number, pix_n, info_list, returned, handed,
                   assembled_data, wf_data>>

\* write_file, then the return through process_output to the end of main.
\* open(file_name, "wb") may fail and leave the file alone; once it has
\* truncated the file, a failing write leaves it with partial contents.
WriteFile ==
    /\ pc = "write_file"
    /\ \/ /\ out_opens' = out_opens + 1
          /\ out_file' = <<"new", wf_data[1]>>
          /\ log' = Append(log, <<"Successfully wrote data", 0>>)
       \/ /\ UNCHANGED <<out_opens, out_file>>
          /\ log' = Append(log, <<"Error writing to file", 0>>)
       \/ /\ out_opens' = out_opens + 1
          /\ out_file' = <<"partial">>
          /\ log' = Append(log, <<"Error writing to file", 0>>)
    /\ pc' = "exit"
    /\ exit_status' = 0
    /\ UNCHANGED <<files, verbose, decode_zlib, mode, pdf_document, page_count,
                   page_number, pix_n, info_list, returned, handed,
                   assembled_data, wf_data, trace, reason>>

Next ==
    \/ Main
    \/ OpenPdf
    \/ LoadPage
    \/ ConvertPage
    \/ DecodePage
    \/ ClosePdf
    \/ ProcessImage
    \/ ImagesDone
    \/ CheckEmpty
    \/ Assemble
    \/ DecompressStep
    \/ WriteFile

Spec == Init /\ [][Next]_vars

\* ------------------------------------------------------------ vocabulary
Exited == pc = "exit"

LastMsg == IF log = <<>> THEN "" ELSE log[Len(log)][1]

Reported(msg, i) == \E j \in 1..Len(log) : log[j] = <<msg, i>>

\* The inputs of the run: the pages of the PDF or the paths of the list.
InputCount == IF mode = "pdf" THEN page_count ELSE Len(files)

\* The input loop ran to its end.
AllProcessed ==
    /\ mode # "none"
    /\ mode = "pdf" => pdf_document # "none"
    /\ page_number = InputCount

\* The lists the decoder returned, one after the other, in input order.
RECURSIVE Flatten(_)
Flatten(rs) == IF rs = <<>> THEN <<>> ELSE Head(rs).recs \o Flatten(Tail(rs))

EmptyReturn(r) == r.kind = "ok" /\ r.recs = <<>>

AssemblyCalled == handed # <<>>
AssemblyFailed == AssemblyCalled /\ assembled_data = <<>>
BadStream == decode_zlib /\ assembled_data # <<>> /\ ~ValidStream(assembled_data[1])

PipelineSucceeded ==
    /\ AllProcessed
    /\ info_list # <<>>
    /\ AssemblyCalled
    /\ ~AssemblyFailed
    /\ ~BadStream

\* C1: a run ends with status 0 when the pipeline succeeded, and with status
\* 1 when no record was collected, when assembly failed, when the requested
\* decompression failed, or when the PDF could not be opened, rendered,
\* converted or decoded -- in PDF mode and in image-list mode alike.
C1_ExitStatus ==
    Exited =>
        /\ exit_status \in {0, 1}
        /\ PipelineSucceeded => exit_status = 0
        /\ (AllProcessed /\ info_list = <<>>) => exit_status = 1
        /\ AssemblyFailed => exit_status = 1
        /\ BadStream => exit_status = 1
        /\ (mode = "pdf" /\ ~AllProcessed) => exit_status = 1
        /\ exit_status = 0 => PipelineSucceeded

C1_Witness ==
    /\ Exited
    /\ mode = "images"
    /\ BadStream
    /\ exit_status = 1

\* C2: an input on which the decoder finds nothing does not end the run: the
\* loop goes on to the next input, the run succeeds when another input gave
\* a record, and "no barcodes in any input" is reported only when the list
\* collected over all inputs is empty.
C2_EmptyPageTolerated ==
    /\ \A i \in 1..Len(returned) :
          EmptyReturn(returned[i]) => page_number >= i
    /\ LastMsg = "No barcodes found in any of the input images." =>
          /\ AllProcessed
          /\ \A i \in 1..Len(returned) : returned[i].recs = <<>>
    /\ (Exited /\ AllProcessed /\ Flatten(returned) # <<>>
          /\ ~AssemblyFailed /\ ~BadStream) => exit_status = 0

C2_Witness ==
    /\ Exited
    /\ exit_status = 0
    /\ mode = "pdf"
    /\ Len(returned) = 2
    /\ EmptyReturn(returned[1])
    /\ returned[2].recs # <<>>

\* C3: in image-list mode every path is attempted; an image whose open or
\* decode raises is reported and skipped, never ends the run, and the
\* records of the other images are what the assembler receives.
C3_ImageFailuresIsolated ==
    mode = "images" =>
        /\ Len(returned) = page_number
        /\ \A i \in 1..Len(returned) :
              returned[i].kind = "raised" => Reported("Error processing image", i)
        /\ pc # "img_loop" => page_number = Len(files)
        /\ AssemblyCalled => handed = Flatten(returned)
        /\ pdf_document = "none"

C3_Witness ==
    /\ mode = "images"
    /\ Len(files) = 2
    /\ Len(returned) = 2
    /\ returned[1].kind = "raised"
    /\ Len(handed) = 2
    /\ Exited
    /\ exit_status = 0

\* C4: in PDF mode a page with a channel count other than 1, 3 or 4, or one
\* whose conversion fails, ends the run with status 1 at that page: the page
\* is not skipped, no later page is rendered or decoded, and what earlier
\* pages gave is never assembled.
C4_ConversionStep ==
    pc = "pdf_convert" =>
        \/ /\ pix_n \in SupportedChannels
           /\ pc' = "pdf_decode"
           /\ UNCHANGED <<page_number, info_list, returned>>
        \/ /\ pc' = "exit"
           /\ exit_status' = 1
           /\ UNCHANGED <<page_number, info_list, returned, handed,
                          assembled_data, wf_data, out_opens, out_file, pix_n>>

C4_BadPageAborts ==
    /\ [](LastMsg = "Error during image processing" =>
            /\ Exited
            /\ exit_status = 1
            /\ mode = "pdf"
            /\ page_number < page_count
            /\ Len(returned) = page_number
            /\ ~AssemblyCalled
            /\ wf_data = <<>>)
    /\ [](pc = "pdf_decode" => pix_n \in SupportedChannels)
    /\ [][C4_ConversionStep]_vars
    /\ [][~Exited]_vars

C4_Witness ==
    /\ LastMsg = "Error during image processing"
    /\ pix_n \notin SupportedChannels
    /\ page_count = 2
    /\ page_number = 1
    /\ info_list # <<>>

\* Every payload with its compression.
Compressions == {<<p, Compress(p)>> : p \in Payloads}

\* C5: with the decompression flag unset write_file receives the assembled
\* bytes unchanged; with it set write_file receives their decompression, so
\* that the compression of a payload comes out as that payload; assembled
\* bytes that are no valid stream end the run with status 1.
C5_Decompression ==
    /\ (wf_data # <<>> /\ ~decode_zlib) => wf_data = assembled_data
    /\ (wf_data # <<>> /\ decode_zlib) =>
          /\ ValidStream(assembled_data[1])
          /\ Compress(wf_data[1]) = assembled_data[1]
    /\ (decode_zlib /\ assembled_data # <<>> /\ pc # "decompress") =>
          \A pair \in Compressions :
             assembled_data[1] = pair[2] => wf_data = <<pair[1]>>
    /\ (BadStream /\ pc # "decompress") =>
          /\ Exited
          /\ exit_status = 1
          /\ wf_data = <<>>

C5_Witness ==
    /\ decode_zlib
    /\ wf_data # <<>>
    /\ Len(wf_data[1]) >= 1
    /\ wf_data # assembled_data

\* C6: a failure to open or to write the output file is printed and is not
\* fatal: the run ends normally with status 0, with no traceback.
C6_WriteFailureNotFatal ==
    /\ pc = "write_file" => wf_data # <<>>
    /\ (Exited /\ wf_data # <<>>) =>
          /\ exit_status = 0
          /\ trace = "none"
          /\ LastMsg \in {"Successfully wrote data", "Error writing to file"}
    /\ (Exited /\ wf_data # <<>> /\ out_file # <<"new", wf_data[1]>>) =>
          LastMsg = "Error writing to file"

C6_Witness ==
    /\ Exited
    /\ mode = "pdf"
    /\ LastMsg = "Error writing to file"
    /\ out_opens = 1
    /\ exit_status = 0

\* The fatal messages of decode.py, and the interpreter's own report of an
\* exception nobody caught.
FatalMessages ==
    {"No barcodes found in any of the input images.", "Error",
     "Error: Decompression error", "Error processing PDF",
     "Error during image processing", "Traceback"}

\* The fatal errors that reach one of process_pdf's two handlers.
HandledInProcessPdf ==
    {"open", "render", "colorspace", "convert", "decode", "assemble_other"}

\* C7 as stated: every fatal run prints a message, and the verbose trace is
\* printed for every fatal error of a PDF-mode run (an empty record list, an
\* assembly failure and a decompression failure included) and for none of
\* an image-list-mode run.
C7_AsStated ==
    (Exited /\ exit_status = 1) =>
        /\ LastMsg \in FatalMessages
        /\ trace = "print_exc" <=> (verbose /\ mode = "pdf")

\* C7, amended: every fatal run prints a message; the verbose trace is
\* printed exactly for the PDF-mode errors that reach a handler of
\* process_pdf (open, load/render, channel count, conversion, decode, or an
\* exception other than ValueError and zlib.error out of process_output).
\* The empty record list, a ValueError of the assembler and a decompression
\* error end the run through sys.exit inside process_output and print no
\* trace in either mode.  In image-list mode the flag has no effect: only
\* the interpreter reports an exception that escapes process_output.
C7_VerboseTrace ==
    /\ (Exited /\ exit_status = 1) =>
          /\ LastMsg \in FatalMessages
          /\ reason # "none"
          /\ trace = "print_exc" <=>
                (verbose /\ mode = "pdf" /\ reason \in HandledInProcessPdf)
          /\ trace = "interpreter" <=>
                (mode = "images" /\ reason = "assemble_other")
          /\ reason \in {"empty", "assemble_value", "zlib"} => trace = "none"
    /\ ~(Exited /\ exit_status = 1) => trace = "none"

C7_Witness ==
    /\ Exited
    /\ exit_status = 1
    /\ verbose
    /\ mode = "pdf"
    /\ reason = "zlib"
    /\ trace = "none"

\* C8 as stated: in PDF mode, once the document is open, it is closed on
\* every path by which the run ends.
C8_AsStated ==
    (Exited /\ pdf_document # "none") => pdf_document = "closed"

\* C9: the list the assembler receives is the concatenation, in input
\* order, of the lists the decoder returned: nothing dropped, duplicated or
\* reordered.
C9_DiscoveryOrder ==
    /\ info_list = Flatten(returned)
    /\ AssemblyCalled => handed = Flatten(returned)
    /\ \A a, b \in 1..Len(handed) :
          a < b => \/ handed[a].src < handed[b].src
                   \/ /\ handed[a].src = handed[b].src
                      /\ handed[a].k < handed[b].k

C9_Witness ==
    /\ mode = "pdf"
    /\ Len(returned) = 2
    /\ Len(returned[1].recs) = 2
    /\ Len(handed) = 3

\* C10: the output file is opened at most once, and only when every input
\* was processed and assembly (and decompression, when requested) succeeded;
\* a run that ends with status 1 has not touched the output file.
C10_OutputUntouchedOnFailure ==
    /\ out_opens <= 1
    /\ out_opens = 0 <=> out_file = <<"old">>
    /\ out_opens = 1 =>
          /\ PipelineSucceeded
          /\ Exited
          /\ exit_status = 0
    /\ (Exited /\ exit_status = 1) => out_file = <<"old">>

C10_Witness ==
    /\ out_opens = 1
    /\ decode_zlib
    /\ mode = "pdf"
    /\ out_file = <<"new", wf_data[1]>>

====
